---- MODULE Spec2Model ----
(***************************************************************************)
(* A model of `count` (src/src/main.rs): read lines, tally them in a hash  *)
(* map, sort the (line, count) pairs, and write the first n of them to     *)
(* standard output, stopping when the SIGPIPE flag is seen set.            *)
(*                                                                         *)
(* A line is the sequence of its bytes.  The main thread is a sequential   *)
(* program whose position is pc; the SIGPIPE handler and the consumer of   *)
(* standard output are the environment and may act between any two steps.  *)
(***************************************************************************)
EXTENDS Integers, Sequences, FiniteSets, TLC

\* ------------------------------------------------------------------ bounds
\* The longest input, in lines.
MaxLines == 4
\* The largest value given to --top.
MaxTop == 2

\* The lines an input is drawn from: "a", "ab", "b".
Lines == {<<97>>, <<97, 98>>, <<98>>}

VARIABLES
    pc,          \* position of main: args, open, read, sort, write, check, done
    sig_pipe,    \* the AtomicBool registered for SIGPIPE
    sig_at,      \* history: where main was when sig_pipe first became true
    pipe_closed, \* the consumer has closed the read end of standard output
    config,      \* Config: sort_by, top
    input,       \* the lines the reader has yielded so far
    eof,         \* the reader has reported the end of the input
    counter,     \* HashMap<String, u64>
    counts,      \* Vec<(&String, &u64)>
    n,           \* the argument of take()
    i,           \* how many entries the output loop has taken
    out,         \* the rows for which writeln! returned Ok
    last_write,  \* what the last write to standard output met
    exit_code,   \* -1 while running
    error        \* the Err main returned (or the argument error), if any

vars == <<pc, sig_pipe, sig_at, pipe_closed, config, input, eof, counter,
          counts, n, i, out, last_write, exit_code, error>>

\* ------------------------------------------------------------ Option<usize>
None == [some |-> FALSE, v |-> 0]
Some(x) == [some |-> TRUE, v |-> x]

SortingOrder == {"Key", "Count", "None"}

\* config.input is read by create_reader alone, which draws it there.
Configs == [sort_by : SortingOrder,
            top : {None} \cup {Some(x) : x \in 0..MaxTop}]

\* ---------------------------------------------------------------- Ordering
\* u64::cmp
CmpInt(a, b) == IF a < b THEN "Less" ELSE IF a > b THEN "Greater" ELSE "Equal"

\* String::cmp: the bytes, lexicographically
RECURSIVE CmpStr(_, _)
CmpStr(a, b) ==
    IF a = <<>> /\ b = <<>> THEN "Equal"
    ELSE IF a = <<>> THEN "Less"
    ELSE IF b = <<>> THEN "Greater"
    ELSE IF Head(a) < Head(b) THEN "Less"
    ELSE IF Head(a) > Head(b) THEN "Greater"
    ELSE CmpStr(Tail(a), Tail(b))

\* Ordering::reverse
Reverse(o) == IF o = "Less" THEN "Greater" ELSE IF o = "Greater" THEN "Less" ELSE "Equal"

\* Ordering::then
Then(o, other) == IF o = "Equal" THEN other ELSE o

\* The comparator of SortingOrder::Key with the count reversed first (a bug).
KeyCmp_CountFirst(a, b) == Then(Reverse(CmpInt(a[2], b[2])), CmpStr(a[1], b[1]))

\* |a, b| a.0.cmp(b.0).then(a.1.cmp(b.1).reverse())
KeyCmp(a, b) == Then(CmpStr(a[1], b[1]), Reverse(CmpInt(a[2], b[2])))

\* The comparator of SortingOrder::Count without .reverse() (a bug).
CountCmp_Ascending(a, b) == Then(CmpInt(a[2], b[2]), CmpStr(a[1], b[1]))

\* The comparator of SortingOrder::Count without its tie-break (a bug).
CountCmp_NoTieBreak(a, b) == Reverse(CmpInt(a[2], b[2]))

\* |a, b| a.1.cmp(b.1).reverse().then(a.0.cmp(b.0))
CountCmp(a, b) == Then(Reverse(CmpInt(a[2], b[2])), CmpStr(a[1], b[1]))

Compare(order, a, b) == IF order = "Key" THEN KeyCmp(a, b) ELSE CountCmp(a, b)

\* ------------------------------------------------------------------ sorting
\* The permutations of 1..len.
IndexPerms(len) ==
    {p \in [1..len -> 1..len] : \A x, y \in 1..len : x # y => p[x] # p[y]}

\* par_sort_unstable_by: an unstable sort, whose work rayon splits as it
\* pleases, may leave the slice in any order its comparator accepts.
ParSortUnstableBy(s, order) ==
    {[k \in 1..Len(s) |-> s[p[k]]] : p \in
        {q \in IndexPerms(Len(s)) :
            \A x, y \in 1..Len(s) :
                x < y => Compare(order, s[q[x]], s[q[y]]) # "Greater"}}

\* sort_counts: the orders it may leave counts in.
sort_counts(cs, order) ==
    IF order = "None" THEN {cs} ELSE ParSortUnstableBy(cs, order)

\* counter.iter().collect(): the table iterates in an order of its own.
IterCollect(c) ==
    {[k \in 1..Cardinality(DOMAIN c) |-> <<p[k], c[p[k]]>>] : p \in
        {q \in [1..Cardinality(DOMAIN c) -> DOMAIN c] :
            \A x, y \in 1..Cardinality(DOMAIN c) : x # y => q[x] # q[y]}}

\* ----------------------------------------------------------------- counting
\* A new key starts at 1 and is then incremented (a bug).
Insert_StartsAtOne(c, line) ==
    LET e == IF line \in DOMAIN c THEN c ELSE c @@ (line :> 1)
    IN  [e EXCEPT ![line] = @ + 1]

\* *counter.entry(line).or_insert(0) += 1
Insert(c, line) ==
    LET e == IF line \in DOMAIN c THEN c ELSE c @@ (line :> 0)
    IN  [e EXCEPT ![line] = @ + 1]

\* ------------------------------------------------------------------- output
\* The decimal digits of a u64, as bytes.
RECURSIVE Decimal(_)
Decimal(x) == IF x < 10 THEN <<48 + x>> ELSE Decimal(x \div 10) \o <<48 + (x % 10)>>

\* writeln!(handle, "{}\t{}", key, count): the bytes of one row.
Row(e) == e[1] \o <<9>> \o Decimal(e[2]) \o <<10>>

\* take(n) of an iterator of len items ends after this many (one more: a bug).
TakeLen_OneMore(limit, len) == IF limit + 1 < len THEN limit + 1 ELSE len

\* take(n) of an iterator of len items ends after this many.
TakeLen(limit, len) == IF limit < len THEN limit ELSE len

\* config.top.unwrap_or_else(|| counts.len())
UnwrapOrLen(top, len) == IF top.some THEN top.v ELSE len

\* ------------------------------------------------------------------ signals
\* The handler signal_hook::flag::register installs stores true in the flag.
\* sig_at remembers the first time: main's position, lines read, rows written.
RaiseSigPipe(rows) ==
    /\ sig_pipe' = TRUE
    /\ sig_at' = IF sig_pipe THEN sig_at
                 ELSE [pc |-> pc, lines |-> Len(input), rows |-> rows]

\* return from main: Ok(()) exits 0, Err(e) reports e and exits 1.
Return(code, err) ==
    /\ pc' = "done"
    /\ exit_code' = code
    /\ error' = err

Init ==
    /\ pc = "args"
    /\ sig_pipe = FALSE
    /\ sig_at = [pc |-> "none", lines |-> 0, rows |-> 0]
    /\ pipe_closed = FALSE
    /\ config = [sort_by |-> "Count", top |-> None]
    /\ input = <<>>
    /\ eof = FALSE
    /\ counter = <<>>
    /\ counts = <<>>
    /\ n = 0
    /\ i = 0
    /\ out = <<>>
    /\ last_write = "none"
    /\ exit_code = -1
    /\ error = "none"

\* ------------------------------------------------------------------ actions
\* Config::from_args() accepts the command line.
ParseArgs ==
    /\ pc = "args"
    /\ \E c \in Configs : config' = c
    /\ pc' = "open"
    /\ UNCHANGED <<sig_pipe, sig_at, pipe_closed, input, eof, counter, counts,
                   n, i, out, last_write, exit_code, error>>

\* Config::from_args() rejects the command line and exits.
ParseArgsErr ==
    /\ pc = "args"
    /\ Return(1, "Args")
    /\ UNCHANGED <<sig_pipe, sig_at, pipe_closed, config, input, eof, counter,
                   counts, n, i, out, last_write>>

\* create_reader: standard input, or the file once opened.
CreateReaderOk ==
    /\ pc = "open"
    /\ pc' = "read"
    /\ UNCHANGED <<sig_pipe, sig_at, pipe_closed, config, input, eof, counter,
                   counts, n, i, out, last_write, exit_code, error>>

\* create_reader: input is Some(file_name) and File::open(file_name)? fails.
CreateReaderErr ==
    /\ pc = "open"
    /\ Return(1, "NotFound")
    /\ UNCHANGED <<sig_pipe, sig_at, pipe_closed, config, input, eof, counter,
                   counts, n, i, out, last_write>>

\* The reading loop leaves as soon as the SIGPIPE flag is set (a bug).
ReadLineOk_StopsOnSigPipe ==
    /\ pc = "read"
    /\ Len(input) < MaxLines
    /\ IF sig_pipe
       THEN pc' = "sort" /\ UNCHANGED <<input, counter>>
       ELSE /\ \E line \in Lines :
                 /\ input' = Append(input, line)
                 /\ counter' = Insert(counter, line)
            /\ pc' = pc
    /\ UNCHANGED <<sig_pipe, sig_at, pipe_closed, config, eof, counts, n, i,
                   out, last_write, exit_code, error>>

\* for line in reader.lines() { *counter.entry(line?).or_insert(0) += 1; }
\* with the next item Some(Ok(line)).
ReadLineOk ==
    /\ pc = "read"
    /\ Len(input) < MaxLines
    /\ \E line \in Lines :
         /\ input' = Append(input, line)
         /\ counter' = Insert(counter, line)
    /\ UNCHANGED <<pc, sig_pipe, sig_at, pipe_closed, config, eof, counts, n,
                   i, out, last_write, exit_code, error>>

\* A line that fails to read is skipped and the run goes on (a bug).
ReadLineErr_Skipped ==
    /\ pc = "read"
    /\ error' = "InvalidData"
    /\ exit_code' = 1
    /\ pc' = "sort"
    /\ UNCHANGED <<sig_pipe, sig_at, pipe_closed, config, input, eof, counter,
                   counts, n, i, out, last_write>>

\* The next item is Some(Err(e)): line? returns from main.
ReadLineErr ==
    /\ pc = "read"
    /\ Return(1, "InvalidData")
    /\ UNCHANGED <<sig_pipe, sig_at, pipe_closed, config, input, eof, counter,
                   counts, n, i, out, last_write>>

\* The next item is None: the loop ends.
ReadEof ==
    /\ pc = "read"
    /\ eof' = TRUE
    /\ pc' = "sort"
    /\ UNCHANGED <<sig_pipe, sig_at, pipe_closed, config, input, counter,
                   counts, n, i, out, last_write, exit_code, error>>

\* counts = counter.iter().collect(); sort_counts(..); n = top or counts.len()
SortCounts ==
    /\ pc = "sort"
    /\ \E collected \in IterCollect(counter) :
         \E sorted \in sort_counts(collected, config.sort_by) :
            /\ counts' = sorted
            /\ n' = UnwrapOrLen(config.top, Len(sorted))
    /\ pc' = "write"
    /\ UNCHANGED <<sig_pipe, sig_at, pipe_closed, config, input, eof, counter,
                   i, out, last_write, exit_code, error>>

\* counts.iter().take(n) is exhausted: Ok(())
LoopEnd ==
    /\ pc = "write"
    /\ i >= TakeLen(n, Len(counts))
    /\ Return(0, "none")
    /\ UNCHANGED <<sig_pipe, sig_at, pipe_closed, config, input, eof, counter,
                   counts, n, i, out, last_write>>

\* writeln!(..)? with the pipe open and the write done.
WriteOk ==
    /\ pc = "write"
    /\ i < TakeLen(n, Len(counts))
    /\ ~pipe_closed
    /\ i' = i + 1
    /\ out' = Append(out, Row(counts[i + 1]))
    /\ last_write' = "Ok"
    /\ pc' = "check"
    /\ UNCHANGED <<sig_pipe, sig_at, pipe_closed, config, input, eof, counter,
                   counts, n, exit_code, error>>

\* writeln!(..)? with a write that fails for another reason than a closed pipe.
WriteErr ==
    /\ pc = "write"
    /\ i < TakeLen(n, Len(counts))
    /\ ~pipe_closed
    /\ i' = i + 1
    /\ last_write' = "EIO"
    /\ Return(1, "Other")
    /\ UNCHANGED <<sig_pipe, sig_at, pipe_closed, config, input, eof, counter,
                   counts, n, out>>

\* writeln!(..)? into a pipe whose read end is closed: the write meets EPIPE
\* and the kernel raises SIGPIPE, whose handler runs before the write returns.
\* The standard library's line writer hands the error to writeln!, and ?
\* returns it from main; the line writer of the toolchains of the program's
\* day kept the failed flush to itself, and writeln! returned Ok.
WriteBrokenPipe ==
    /\ pc = "write"
    /\ i < TakeLen(n, Len(counts))
    /\ pipe_closed
    /\ i' = i + 1
    /\ last_write' = "EPIPE"
    /\ \/ /\ RaiseSigPipe(Len(out))
          /\ Return(1, "BrokenPipe")
          /\ out' = out
       \/ /\ out' = Append(out, Row(counts[i + 1]))
          /\ RaiseSigPipe(Len(out'))
          /\ pc' = "check"
          /\ UNCHANGED <<exit_code, error>>
    /\ UNCHANGED <<pipe_closed, config, input, eof, counter, counts, n>>

\* The output loop never looks at the flag (a bug).
CheckFlag_Never ==
    /\ pc = "check"
    /\ pc' = "write"
    /\ UNCHANGED <<exit_code, error>>
    /\ UNCHANGED <<sig_pipe, sig_at, pipe_closed, config, input, eof, counter,
                   counts, n, i, out, last_write>>

\* if sig_pipe.load(Ordering::Relaxed) { break; }   and then Ok(())
CheckFlag ==
    /\ pc = "check"
    /\ IF sig_pipe
       THEN Return(0, "none")
       ELSE pc' = "write" /\ UNCHANGED <<exit_code, error>>
    /\ UNCHANGED <<sig_pipe, sig_at, pipe_closed, config, input, eof, counter,
                   counts, n, i, out, last_write>>

\* SIGPIPE reaches the process from elsewhere, at any point of the run.
SigPipe ==
    /\ pc # "done"
    /\ ~sig_pipe
    /\ RaiseSigPipe(Len(out))
    /\ UNCHANGED <<pc, pipe_closed, config, input, eof, counter, counts, n, i,
                   out, last_write, exit_code, error>>

\* The consumer of standard output closes its end of the pipe.  Only a write
\* can tell, so a pipe closed earlier is a pipe closed as the output loop starts.
ClosePipe ==
    /\ pc \in {"write", "check"}
    /\ ~pipe_closed
    /\ pipe_closed' = TRUE
    /\ UNCHANGED <<pc, sig_pipe, sig_at, config, input, eof, counter, counts,
                   n, i, out, last_write, exit_code, error>>

Next ==
    \/ ParseArgs
    \/ ParseArgsErr
    \/ CreateReaderOk
    \/ CreateReaderErr
    \/ ReadLineOk
    \/ ReadLineErr
    \/ ReadEof
    \/ SortCounts
    \/ LoopEnd
    \/ WriteOk
    \/ WriteErr
    \/ WriteBrokenPipe
    \/ CheckFlag
    \/ SigPipe
    \/ ClosePipe

Spec == Init /\ [][Next]_vars

\* ---------------------------------------------------- what the claims speak of
\* How often line x occurs in the input s.
Occurrences(s, x) == Cardinality({k \in 1..Len(s) : s[k] = x})

\* The distinct lines of the input s.
Distinct(s) == {s[k] : k \in 1..Len(s)}

\* The frequency table of the input s.
Tally(s) == [x \in Distinct(s) |-> Occurrences(s, x)]

\* The sum of the counts of a table.
RECURSIVE SumOf(_)
SumOf(c) ==
    IF DOMAIN c = {} THEN 0
    ELSE LET x == CHOOSE y \in DOMAIN c : TRUE
         IN  c[x] + SumOf([y \in DOMAIN c \ {x} |-> c[y]])

\* Line a is before line b in ordinal order.
LexLess(a, b) ==
    \E k \in 1..(Len(a) + 1) :
        /\ \A j \in 1..(k - 1) : j <= Len(b) /\ a[j] = b[j]
        /\ k <= Len(b)
        /\ (k <= Len(a) => a[k] < b[k])

\* A single-threaded insertion sort of s under the comparator of order.
RECURSIVE InsertSorted(_, _, _)
InsertSorted(e, s, order) ==
    IF s = <<>> THEN <<e>>
    ELSE IF Compare(order, e, Head(s)) = "Less" THEN <<e>> \o s
    ELSE <<Head(s)>> \o InsertSorted(e, Tail(s), order)

RECURSIVE SequentialSort(_, _)
SequentialSort(s, order) ==
    IF s = <<>> THEN <<>>
    ELSE InsertSorted(Head(s), SequentialSort(Tail(s), order), order)

\* Every row written is the row of the entry at its place in counts.
RowsFollowCounts ==
    /\ Len(out) <= Len(counts)
    /\ \A k \in 1..Len(out) : out[k] = Row(counts[k])

\* The flag was set before the output loop started.
FlagSetBeforeLoop == sig_at.pc \in {"args", "open", "read", "sort"}

\* ------------------------------------------------------------------- claims
\* C1: once the counting loop has ended at the end of the input, the keys of
\* the table are the distinct lines of the input, each with the number of
\* times it occurred, and the counts add up to the number of lines read.
C1_CounterMatchesInput ==
    eof =>
        /\ DOMAIN counter = Distinct(input)
        /\ \A x \in DOMAIN counter : counter[x] = Occurrences(input, x)
        /\ SumOf(counter) = Len(input)

C1_Witness ==
    /\ eof
    /\ Len(input) >= 3
    /\ Cardinality(DOMAIN counter) = 2

\* C2: in Count order adjacent entries have non-increasing counts, and equal
\* counts come with strictly increasing lines; the rows written follow them.
C2_CountOrder ==
    config.sort_by = "Count" =>
        /\ \A k \in 1..(Len(counts) - 1) :
              /\ counts[k][2] >= counts[k + 1][2]
              /\ counts[k][2] = counts[k + 1][2]
                    => LexLess(counts[k][1], counts[k + 1][1])
        /\ RowsFollowCounts

C2_Witness ==
    /\ config.sort_by = "Count"
    /\ pc = "done" /\ exit_code = 0
    /\ Len(out) = 3
    /\ counts[1][2] > counts[2][2]
    /\ counts[2][2] = counts[3][2]

\* C3: in Key order adjacent entries have strictly increasing lines, whatever
\* their counts; the rows written follow them.
C3_KeyOrder ==
    config.sort_by = "Key" =>
        /\ \A k \in 1..(Len(counts) - 1) :
              LexLess(counts[k][1], counts[k + 1][1])
        /\ RowsFollowCounts

C3_Witness ==
    /\ config.sort_by = "Key"
    /\ pc = "done" /\ exit_code = 0
    /\ Len(out) = 3
    /\ counts[1][2] < counts[2][2]

\* C4: a run that ends with no write failed and no broken pipe has written
\* min(N, distinct lines) rows with --top N and every distinct line without,
\* and the rows are the first entries of the sorted sequence, one for one.
C4_TopTruncation ==
    (pc = "done" /\ exit_code = 0 /\ ~sig_pipe /\ ~pipe_closed) =>
        LET distinct == Cardinality(Distinct(input))
        IN  /\ Len(counts) = distinct
            /\ Len(out) = IF config.top.some /\ config.top.v < distinct
                          THEN config.top.v ELSE distinct
            /\ \A k \in 1..Len(out) : out[k] = Row(counts[k])

C4_Witness ==
    /\ pc = "done" /\ exit_code = 0 /\ ~sig_pipe /\ ~pipe_closed
    /\ config.top = Some(2)
    /\ Cardinality(Distinct(input)) = 3
    /\ Len(out) = 2

\* C5: a run whose row write met a closed pipe ends with exit code 0 and no
\* error reported; a write error that exits non-zero is no broken pipe.
C5_BrokenPipeExitsZero ==
    /\ (pc = "done" /\ last_write = "EPIPE") => (exit_code = 0 /\ error = "none")
    /\ (pc = "done" /\ exit_code # 0) => error # "BrokenPipe"

\* C6: when the input cannot be opened or a line cannot be read, the run is
\* over with a non-zero exit code and no row written.
C6_NoRowsOnInputFailure ==
    error \in {"NotFound", "InvalidData"} =>
        /\ pc = "done"
        /\ exit_code > 0
        /\ out = <<>>

C6_Witness ==
    /\ pc = "done"
    /\ error = "InvalidData"
    /\ Len(input) >= 2
    /\ exit_code = 1
    /\ out = <<>>

\* C7: in Key and Count order the sorted sequence is the one a single-threaded
\* sort with the same comparator makes of the table of the input's lines, from
\* whichever order the table is iterated in; the rows written follow it.
C7_SortDeterministic ==
    (config.sort_by \in {"Key", "Count"} /\ pc \in {"write", "check", "done"} /\ eof) =>
        /\ \A e \in IterCollect(Tally(input)) :
              counts = SequentialSort(e, config.sort_by)
        /\ RowsFollowCounts

C7_Witness ==
    /\ config.sort_by = "Count"
    /\ pc = "done" /\ exit_code = 0
    /\ Len(out) = 3
    /\ counts[1][2] = counts[2][2]
    /\ counts[2][2] = counts[3][2]

\* C8: once the flag is true, at most one more row is written.
C8_AtMostOneRowAfterFlag ==
    sig_pipe => Len(out) <= sig_at.rows + 1

C8_Witness ==
    /\ pc = "done" /\ exit_code = 0
    /\ sig_at.pc = "write"
    /\ sig_at.rows >= 1
    /\ Len(out) = sig_at.rows + 1
    /\ Len(out) < TakeLen(n, Len(counts))

\* C9: sorting and writing come only after the reader has reported the end of
\* the input and the table holds all of it, whenever SIGPIPE arrived.
C9_CountingRunsToEnd ==
    (\/ pc \in {"sort", "write", "check"}
     \/ counts # <<>>
     \/ out # <<>>
     \/ (pc = "done" /\ error \notin {"Args", "NotFound", "InvalidData"})) =>
        /\ eof
        /\ counter = Tally(input)

C9_Witness ==
    /\ sig_at.pc = "read"
    /\ sig_at.lines >= 1
    /\ Len(input) > sig_at.lines
    /\ eof
    /\ out # <<>>

\* C10 as stated: with the flag set before the output loop starts, at least
\* one entry and N >= 1, the run ends with exactly one row written, the first
\* of the sorted sequence, and exit code 0.
C10_AsStated ==
    (pc = "done" /\ eof /\ FlagSetBeforeLoop /\ Len(counts) >= 1 /\ n >= 1) =>
        /\ Len(out) = 1
        /\ out[1] = Row(counts[1])
        /\ exit_code = 0

\* C10 amended: the same, provided the write of that first row does not fail;
\* when it fails no row is written and the exit code is not 0.  With the table
\* empty or N = 0 no row is written.
C10_OneRowUnlessWriteFails ==
    (pc = "done" /\ eof /\ FlagSetBeforeLoop) =>
        IF Len(counts) >= 1 /\ n >= 1
        THEN IF error = "none"
             THEN Len(out) = 1 /\ out[1] = Row(counts[1]) /\ exit_code = 0
             ELSE Len(out) = 0 /\ exit_code > 0
        ELSE Len(out) = 0 /\ exit_code = 0

C10_Witness ==
    /\ pc = "done" /\ exit_code = 0
    /\ sig_at.pc = "read"
    /\ Len(counts) >= 2
    /\ n >= 2
    /\ Len(out) = 1

====
